---- MODULE Spec2Model ----
(***************************************************************************)
(* A model of the yosys-json-netlist codec (src/src/lib.rs): the Bit       *)
(* codec, the boolean-flag codec and the derived, order-preserving,        *)
(* extension-tolerant mapping between JSON objects and Netlist, Module,    *)
(* Port, Cell, Memory and Net.                                             *)
(*                                                                         *)
(* A JSON value is a tree, as serde_json hands it to the Deserialize       *)
(* impls: a record with kind k in {"null","bool","int","float","str",      *)
(* "arr","obj"}; n is the integer (or 0/1 for a bool), s the string (or    *)
(* the digits of a float), a the elements of an array and o the members    *)
(* of an object in document order, each member a record [key, val].  The   *)
(* keys of one object are pairwise distinct.                               *)
(***************************************************************************)
EXTENDS Integers, Sequences, FiniteSets, TLC

VARIABLES ty, input, value, output, pc

vars == <<ty, input, value, output, pc>>

----------------------------------------------------------------------------
(* Bounds of the model *)

MaxSignal == 12
MaxBits == 2

----------------------------------------------------------------------------
(* JSON values *)

JNull == [k |-> "null", n |-> 0, s |-> "", a |-> <<>>, o |-> <<>>]
JBool(b) == [k |-> "bool", n |-> IF b THEN 1 ELSE 0, s |-> "", a |-> <<>>, o |-> <<>>]
JInt(i) == [k |-> "int", n |-> i, s |-> "", a |-> <<>>, o |-> <<>>]
JFloat(digits) == [k |-> "float", n |-> 0, s |-> digits, a |-> <<>>, o |-> <<>>]
JStr(str) == [k |-> "str", n |-> 0, s |-> str, a |-> <<>>, o |-> <<>>]
JArr(elems) == [k |-> "arr", n |-> 0, s |-> "", a |-> elems, o |-> <<>>]
JObj(members) == [k |-> "obj", n |-> 0, s |-> "", a |-> <<>>, o |-> members]
M(key, val) == [key |-> key, val |-> val]

\* No JSON value at all: the input of a value that was built, not decoded.
NoJson == [k |-> "none", n |-> 0, s |-> "", a |-> <<>>, o |-> <<>>]

Range(seq) == {seq[i] : i \in DOMAIN seq}
Keys(members) == [i \in DOMAIN members |-> members[i].key]
HasKey(members, key) == \E i \in DOMAIN members : members[i].key = key
Get(members, key) == (CHOOSE m \in Range(members) : m.key = key).val
Reverse(seq) == [i \in DOMAIN seq |-> seq[Len(seq) + 1 - i]]
UniqueKeys(members) ==
    \A i, j \in DOMAIN members : members[i].key = members[j].key => i = j

----------------------------------------------------------------------------
(* Results and errors.  An error carries what serde's de::Error carries:   *)
(* its kind, the unexpected value (de::Unexpected, or the field name of a  *)
(* missing field) and the visitor's `expecting` text.                      *)

NoError == [kind |-> "", unexp |-> NoJson, exp |-> ""]
Ok(x) == [ok |-> TRUE, val |-> x, err |-> NoError]
Err(e) == [ok |-> FALSE, val |-> <<>>, err |-> e]

\* de::Unexpected keeps a scalar and forgets the content of a sequence or map.
Unexpected(v) == IF v.k \in {"arr", "obj"} THEN [v EXCEPT !.a = <<>>, !.o = <<>>] ELSE v
invalid_type(v, exp) == [kind |-> "invalid_type", unexp |-> Unexpected(v), exp |-> exp]
invalid_value(v, exp) == [kind |-> "invalid_value", unexp |-> Unexpected(v), exp |-> exp]
unknown_variant(v, exp) == [kind |-> "unknown_variant", unexp |-> Unexpected(v), exp |-> exp]
missing_field(key) == [kind |-> "missing_field", unexp |-> JStr(key), exp |-> ""]
duplicate_field(key) == [kind |-> "duplicate_field", unexp |-> JStr(key), exp |-> ""]

----------------------------------------------------------------------------
(* Bit *)

Signal(id) == [tag |-> "Signal", n |-> id]
Bit_0 == [tag |-> "_0", n |-> 0]
Bit_1 == [tag |-> "_1", n |-> 0]
Z == [tag |-> "Z", n |-> 0]
X == [tag |-> "X", n |-> 0]

Bit == {Signal(id) : id \in 0..MaxSignal} \cup {Bit_0, Bit_1, Z, X}

\* Mutants of SerializeBit: X written as "z"; Z written in upper case.
SerializeBit_XasZ(b) ==
    CASE b.tag = "Signal" -> JInt(b.n)
      [] b.tag = "_0" -> JStr("0")
      [] b.tag = "_1" -> JStr("1")
      [] b.tag = "Z" -> JStr("z")
      [] b.tag = "X" -> JStr("z")

SerializeBit_upperZ(b) ==
    CASE b.tag = "Signal" -> JInt(b.n)
      [] b.tag = "_0" -> JStr("0")
      [] b.tag = "_1" -> JStr("1")
      [] b.tag = "Z" -> JStr("Z")
      [] b.tag = "X" -> JStr("x")

\* impl Serialize for Bit
SerializeBit(b) ==
    CASE b.tag = "Signal" -> JInt(b.n)
      [] b.tag = "_0" -> JStr("0")
      [] b.tag = "_1" -> JStr("1")
      [] b.tag = "Z" -> JStr("z")
      [] b.tag = "X" -> JStr("x")

BitVisitor_expecting == "expecting either, a number, \"0\", \"1\", \"z\", \"x\""

BitVisitor_visit_u64(v) == Ok(Signal(v.n))

\* Mutants of BitVisitor_visit_str: "z" read as X; upper case accepted.
BitVisitor_visit_str_zAsX(v) ==
    CASE v.s = "0" -> Ok(Bit_0)
      [] v.s = "1" -> Ok(Bit_1)
      [] v.s = "z" -> Ok(X)
      [] v.s = "x" -> Ok(X)
      [] OTHER -> Err(invalid_value(v, BitVisitor_expecting))

BitVisitor_visit_str_anyCase(v) ==
    CASE v.s = "0" -> Ok(Bit_0)
      [] v.s = "1" -> Ok(Bit_1)
      [] v.s \in {"z", "Z"} -> Ok(Z)
      [] v.s \in {"x", "X"} -> Ok(X)
      [] OTHER -> Err(invalid_value(v, BitVisitor_expecting))

BitVisitor_visit_str(v) ==
    CASE v.s = "0" -> Ok(Bit_0)
      [] v.s = "1" -> Ok(Bit_1)
      [] v.s = "z" -> Ok(Z)
      [] v.s = "x" -> Ok(X)
      [] OTHER -> Err(invalid_value(v, BitVisitor_expecting))

\* deserialize_any hands the value to the visit method of its JSON kind; a
\* negative integer goes to visit_i64, and every visit method BitVisitor does
\* not define is the Visitor default, which fails with invalid_type.
DeserializeBit(v) ==
    CASE v.k = "int" /\ v.n >= 0 -> BitVisitor_visit_u64(v)
      [] v.k = "str" -> BitVisitor_visit_str(v)
      [] OTHER -> Err(invalid_type(v, BitVisitor_expecting))

----------------------------------------------------------------------------
(* Boolean flags *)

\* Mutant of serialize_bool_u64: true written as 1.
serialize_bool_u64_faithful(flag) ==
    CASE flag = TRUE -> JInt(1)
      [] flag = FALSE -> JInt(0)

serialize_bool_u64(flag) ==
    CASE flag = TRUE -> JInt(0)
      [] flag = FALSE -> JInt(0)

Boolu64Visitor_expecting == "expecting u64(1 for true, false otherwise"

\* Mutant of Boolu64Visitor_visit_u64: every non-zero integer is true.
Boolu64Visitor_visit_u64_nonZero(v) == Ok(v.n # 0)

Boolu64Visitor_visit_u64(v) == Ok(v.n = 1)

\* deserialize_u64 hands a non-negative integer to visit_u64 and a negative one
\* to visit_i64, which Boolu64Visitor does not define; anything else is an
\* invalid type.
deserialize_u64_bool(v) ==
    CASE v.k = "int" /\ v.n >= 0 -> Boolu64Visitor_visit_u64(v)
      [] OTHER -> Err(invalid_type(v, Boolu64Visitor_expecting))

----------------------------------------------------------------------------
(* Direction *)

Direction == {"Input", "Output", "InOut"}

DirectionRename(d) ==
    CASE d = "Input" -> "input"
      [] d = "Output" -> "output"
      [] d = "InOut" -> "inout"

SerializeDirection(d) == JStr(DirectionRename(d))

DeserializeDirection(v) ==
    IF v.k = "str"
    THEN IF \E d \in Direction : DirectionRename(d) = v.s
         THEN Ok(CHOOSE d \in Direction : DirectionRename(d) = v.s)
         ELSE Err(unknown_variant(v, "input, output, inout"))
    ELSE Err(invalid_type(v, "enum Direction"))

----------------------------------------------------------------------------
(* The entity schemas.  A field is its Rust name, its key on the wire      *)
(* (serde rename), its type and whether it carries #[serde(default)].      *)
(* "bool_u64" is a bool field (de)serialized with serialize_bool_u64 and   *)
(* deserialize_u64_bool.  Every entity also has the flattened `extra`.     *)

Fld(name, key, fty, hasDefault) ==
    [name |-> name, key |-> key, ty |-> fty, default |-> hasDefault]

Netlist ==
    << Fld("creator", "creator", "String", FALSE),
       Fld("modules", "modules", "IndexMap<Module>", FALSE) >>

Module ==
    << Fld("attributes", "attributes", "IndexMap<Value>", TRUE),
       Fld("ports", "ports", "IndexMap<Port>", TRUE),
       Fld("cells", "cells", "IndexMap<Cell>", TRUE),
       Fld("memories", "memories", "IndexMap<Memory>", TRUE),
       Fld("nets", "netnames", "IndexMap<Net>", TRUE) >>

\* Mutant of Port: offset without #[serde(default)].
Port_offsetRequired ==
    << Fld("direction", "direction", "Direction", FALSE),
       Fld("bits", "bits", "Vec<Bit>", FALSE),
       Fld("offset", "offset", "usize", FALSE),
       Fld("upto", "upto", "usize", TRUE),
       Fld("signed", "signed", "bool_u64", TRUE) >>

Port ==
    << Fld("direction", "direction", "Direction", FALSE),
       Fld("bits", "bits", "Vec<Bit>", FALSE),
       Fld("offset", "offset", "usize", TRUE),
       Fld("upto", "upto", "usize", TRUE),
       Fld("signed", "signed", "bool_u64", TRUE) >>

Cell ==
    << Fld("hide_name", "hide_name", "bool_u64", TRUE),
       Fld("module", "type", "String", FALSE),
       Fld("attributes", "attributes", "IndexMap<Value>", TRUE),
       Fld("parameters", "parameters", "IndexMap<Value>", TRUE),
       Fld("port_directions", "port_directions", "IndexMap<Direction>", TRUE),
       Fld("connections", "connections", "IndexMap<Vec<Bit>>", TRUE) >>

\* Mutant of Memory: size with #[serde(default)].
Memory_sizeDefault ==
    << Fld("hide_name", "hide_name", "bool_u64", TRUE),
       Fld("attributes", "attributes", "IndexMap<Value>", TRUE),
       Fld("width", "width", "usize", FALSE),
       Fld("size", "size", "usize", TRUE),
       Fld("start_offset", "start_offset", "usize", TRUE) >>

Memory ==
    << Fld("hide_name", "hide_name", "bool_u64", TRUE),
       Fld("attributes", "attributes", "IndexMap<Value>", TRUE),
       Fld("width", "width", "usize", FALSE),
       Fld("size", "size", "usize", FALSE),
       Fld("start_offset", "start_offset", "usize", TRUE) >>

Net ==
    << Fld("hide_name", "hide_name", "bool_u64", TRUE),
       Fld("attributes", "attributes", "IndexMap<Value>", TRUE),
       Fld("bits", "bits", "Vec<Bit>", FALSE),
       Fld("offset", "offset", "usize", TRUE),
       Fld("upto", "upto", "usize", TRUE),
       Fld("signed", "signed", "bool_u64", TRUE) >>

StructTypes == {"Netlist", "Module", "Port", "Cell", "Memory", "Net"}

MapTypes ==
    {"IndexMap<Value>", "IndexMap<Direction>", "IndexMap<Vec<Bit>>", "IndexMap<Port>",
     "IndexMap<Cell>", "IndexMap<Memory>", "IndexMap<Net>", "IndexMap<Module>"}

Fields(sty) ==
    CASE sty = "Netlist" -> Netlist
      [] sty = "Module" -> Module
      [] sty = "Port" -> Port
      [] sty = "Cell" -> Cell
      [] sty = "Memory" -> Memory
      [] sty = "Net" -> Net

\* The type of the values of an IndexMap<String, V>.
ValueType(mty) ==
    CASE mty = "IndexMap<Value>" -> "Value"
      [] mty = "IndexMap<Direction>" -> "Direction"
      [] mty = "IndexMap<Vec<Bit>>" -> "Vec<Bit>"
      [] mty = "IndexMap<Port>" -> "Port"
      [] mty = "IndexMap<Cell>" -> "Cell"
      [] mty = "IndexMap<Memory>" -> "Memory"
      [] mty = "IndexMap<Net>" -> "Net"
      [] mty = "IndexMap<Module>" -> "Module"

FieldNames(sty) == {Fields(sty)[i].name : i \in DOMAIN Fields(sty)}
FieldKeys(sty) == {Fields(sty)[i].key : i \in DOMAIN Fields(sty)}
FieldOfKey(sty, key) == CHOOSE f \in Range(Fields(sty)) : f.key = key

\* Default::default() of a field type with #[serde(default)].
DefaultOf(fty) ==
    CASE fty \in MapTypes -> <<>>
      [] fty = "usize" -> 0
      [] fty = "bool_u64" -> FALSE

----------------------------------------------------------------------------
(* IndexMap: a sequence of entries [key, val] in insertion order.          *)

\* Mutant of IndexMap_insert: a container that does not keep insertion order
\* (a new key goes to the front).
IndexMap_insert_front(map, key, val) ==
    IF HasKey(map, key)
    THEN [i \in DOMAIN map |-> IF map[i].key = key THEN M(key, val) ELSE map[i]]
    ELSE <<M(key, val)>> \o map

\* IndexMap::insert: a new key is appended; an existing key keeps its place
\* and takes the new value.
IndexMap_insert(map, key, val) ==
    IF HasKey(map, key)
    THEN [i \in DOMAIN map |-> IF map[i].key = key THEN M(key, val) ELSE map[i]]
    ELSE Append(map, M(key, val))

RECURSIVE IndexMap_collect(_, _, _)
IndexMap_collect(entries, i, map) ==
    IF i > Len(entries) THEN map
    ELSE IndexMap_collect(entries, i + 1, IndexMap_insert(map, entries[i].key, entries[i].val))

----------------------------------------------------------------------------
(* Deserialize.  Members are visited in document order and the first       *)
(* error ends the call; a struct's missing fields are found after its last *)
(* member, in declaration order.                                           *)

RECURSIVE Deserialize(_, _)
RECURSIVE visit_seq(_, _, _)
RECURSIVE IndexMap_visit_map(_, _, _, _)
RECURSIVE Struct_visit_map(_, _, _, _)

\* Vec<Bit>
visit_seq(elems, i, vec) ==
    IF i > Len(elems) THEN Ok(vec)
    ELSE LET r == DeserializeBit(elems[i])
         IN  IF r.ok THEN visit_seq(elems, i + 1, Append(vec, r.val)) ELSE r

IndexMap_visit_map(vty, members, i, map) ==
    IF i > Len(members) THEN Ok(map)
    ELSE LET r == Deserialize(vty, members[i].val)
         IN  IF r.ok
             THEN IndexMap_visit_map(vty, members, i + 1,
                                     IndexMap_insert(map, members[i].key, r.val))
             ELSE r

\* A struct with a flattened field: a member with a recognized key is
\* deserialized as its field, any other member is collected; then the fields
\* not seen take their default or fail, and `extra` is built from what was
\* collected.
Struct_finish(sty, acc) ==
    LET F == Fields(sty)
        missing == {i \in DOMAIN F : F[i].name \notin acc.seen /\ ~F[i].default}
        first == CHOOSE i \in missing : \A j \in missing : i <= j
    IN  IF missing # {}
        THEN Err(missing_field(F[first].key))
        ELSE Ok([name \in FieldNames(sty) \cup {"extra"} |->
                    IF name = "extra" THEN IndexMap_collect(acc.collect, 1, <<>>)
                    ELSE IF name \in acc.seen THEN acc.vals[name]
                    ELSE DefaultOf((CHOOSE f \in Range(F) : f.name = name).ty)])

Struct_visit_map(sty, members, i, acc) ==
    IF i > Len(members) THEN Struct_finish(sty, acc)
    ELSE LET m == members[i]
         IN  IF m.key \in FieldKeys(sty)
             THEN LET f == FieldOfKey(sty, m.key)
                      r == Deserialize(f.ty, m.val)
                  IN  IF f.name \in acc.seen THEN Err(duplicate_field(f.key))
                      ELSE IF r.ok
                      THEN Struct_visit_map(sty, members, i + 1,
                               [acc EXCEPT !.seen = @ \cup {f.name},
                                           !.vals = [@ EXCEPT ![f.name] = r.val]])
                      ELSE r
             ELSE Struct_visit_map(sty, members, i + 1,
                                   [acc EXCEPT !.collect = Append(@, m)])

DeserializeString(v) ==
    IF v.k = "str" THEN Ok(v.s) ELSE Err(invalid_type(v, "a string"))

\* usize: a non-negative integer; a negative one is out of range.
DeserializeUsize(v) ==
    CASE v.k = "int" /\ v.n >= 0 -> Ok(v.n)
      [] v.k = "int" /\ v.n < 0 -> Err(invalid_value(v, "usize"))
      [] OTHER -> Err(invalid_type(v, "usize"))

Deserialize(t, v) ==
    CASE t = "Bit" -> DeserializeBit(v)
      [] t = "bool_u64" -> deserialize_u64_bool(v)
      [] t = "Direction" -> DeserializeDirection(v)
      [] t = "String" -> DeserializeString(v)
      [] t = "usize" -> DeserializeUsize(v)
      [] t = "Value" -> Ok(v)
      [] t = "Vec<Bit>" ->
            IF v.k = "arr" THEN visit_seq(v.a, 1, <<>>)
            ELSE Err(invalid_type(v, "a sequence"))
      [] t \in MapTypes ->
            IF v.k = "obj" THEN IndexMap_visit_map(ValueType(t), v.o, 1, <<>>)
            ELSE Err(invalid_type(v, "a map"))
      [] t \in StructTypes ->
            IF v.k = "obj"
            THEN Struct_visit_map(t, v.o, 1,
                     [seen |-> {}, collect |-> <<>>,
                      vals |-> [name \in FieldNames(t) |-> <<>>]])
            ELSE Err(invalid_type(v, "a map"))

----------------------------------------------------------------------------
(* Serialize.  A struct writes its fields in declaration order under their *)
(* wire keys, then the entries of `extra` in stored order.                 *)

RECURSIVE Serialize(_, _)

\* Mutant of Struct_serialize: the flattened `extra` written before the fields.
Struct_serialize_extraFirst(sty, x) ==
    LET F == Fields(sty)
    IN  JObj([i \in DOMAIN x.extra |-> M(x.extra[i].key, Serialize("Value", x.extra[i].val))]
             \o [i \in DOMAIN F |-> M(F[i].key, Serialize(F[i].ty, x[F[i].name]))])

Struct_serialize(sty, x) ==
    LET F == Fields(sty)
    IN  JObj([i \in DOMAIN F |-> M(F[i].key, Serialize(F[i].ty, x[F[i].name]))]
             \o [i \in DOMAIN x.extra |-> M(x.extra[i].key, Serialize("Value", x.extra[i].val))])

Serialize(t, x) ==
    CASE t = "Bit" -> SerializeBit(x)
      [] t = "bool_u64" -> serialize_bool_u64(x)
      [] t = "Direction" -> SerializeDirection(x)
      [] t = "String" -> JStr(x)
      [] t = "usize" -> JInt(x)
      [] t = "Value" -> x
      [] t = "Vec<Bit>" -> JArr([i \in DOMAIN x |-> SerializeBit(x[i])])
      [] t \in MapTypes ->
            JObj([i \in DOMAIN x |-> M(x[i].key, Serialize(ValueType(t), x[i].val))])
      [] t \in StructTypes -> Struct_serialize(t, x)

----------------------------------------------------------------------------
(* The inputs.  MkObj drops the members marked Absent and, when asked,     *)
(* reverses the rest, so that unrecognized members come first.             *)

Absent == [k |-> "absent", n |-> 0, s |-> "", a |-> <<>>, o |-> <<>>]

MkObj(members, reversed) ==
    LET Present(m) == m.val.k # "absent"
        kept == SelectSeq(members, Present)
    IN  JObj(IF reversed THEN Reverse(kept) ELSE kept)

SeqsUpTo(S, len) == UNION {[1..l -> S] : l \in 0..len}

WireScalars ==
    {JInt(i) : i \in -2..MaxSignal}
    \cup {JStr(str) : str \in {"0", "1", "z", "x", "Z", "X", "Q", "", "00", "input"}}
    \cup {JBool(TRUE), JBool(FALSE), JNull, JFloat("1.5")}

BitElems == {JInt(0), JInt(MaxSignal), JInt(-1), JStr("1"), JStr("z"), JStr("X")}

BitsOpts ==
    {Absent, JArr(<<JInt(0), JStr("1"), JStr("x")>>), JArr(<<JInt(2), JStr("Q")>>), JArr(<<>>)}

Attr1 == JObj(<<M("src", JStr("a.v:1")), M("keep", JInt(1))>>)

ExtraOpts ==
    { <<>>,
      <<M("foo", JInt(1))>>,
      <<M("zeta", JStr("v")), M("alpha", JArr(<<JInt(1), JNull>>))>> }

PortObjs ==
    { MkObj(<<M("direction", d), M("bits", b), M("offset", off[1]), M("upto", off[2]),
              M("signed", sg)>> \o e, rev) :
        d \in {Absent, JStr("input"), JStr("inout"), JStr("sideways")},
        b \in BitsOpts,
        off \in {<<Absent, Absent>>, <<JInt(3), JInt(1)>>, <<JInt(-1), Absent>>},
        sg \in {Absent, JInt(0), JInt(1), JInt(2), JInt(-1), JStr("1")},
        e \in ExtraOpts,
        rev \in BOOLEAN }

NetObjs ==
    { MkObj(<<M("hide_name", h), M("attributes", at), M("bits", b), M("offset", off[1]),
              M("upto", off[2]), M("signed", sg)>> \o e, rev) :
        h \in {Absent, JInt(0), JInt(1)},
        at \in {Absent, Attr1, JArr(<<>>)},
        b \in {Absent, JArr(<<JInt(4), JStr("z")>>), JArr(<<JStr("Z")>>)},
        off \in {<<Absent, Absent>>, <<JInt(3), JInt(1)>>},
        sg \in {Absent, JInt(1), JInt(-1)},
        e \in {<<>>, <<M("zeta", JStr("v")), M("alpha", JInt(2))>>},
        rev \in BOOLEAN }

Params1 == JObj(<<M("WIDTH", JInt(8)), M("A_SIGNED", JStr("0"))>>)
PortDirs1 == JObj(<<M("Y", JStr("output")), M("A", JStr("input"))>>)
Conns1 == JObj(<<M("Y", JArr(<<JInt(3)>>)), M("A", JArr(<<JInt(2), JStr("0")>>))>>)

CellObjs ==
    { MkObj(<<M("hide_name", h), M("type", tp), M("attributes", at), M("parameters", pa),
              M("port_directions", pd), M("connections", cn)>> \o e, rev) :
        h \in {Absent, JInt(1), JInt(-1)},
        tp \in {Absent, JStr("$and"), JInt(5)},
        at \in {Absent, Attr1},
        pa \in {Absent, Params1},
        pd \in {Absent, PortDirs1, JObj(<<M("A", JStr("up"))>>)},
        cn \in {Absent, Conns1, JObj(<<M("A", JArr(<<JStr("Q")>>))>>)},
        e \in {<<>>, <<M("module", JStr("x"))>>,
               <<M("zeta", JStr("v")), M("alpha", JInt(2))>>},
        rev \in BOOLEAN }

MemoryObjs ==
    { MkObj(<<M("hide_name", h), M("attributes", at), M("width", w), M("size", sz),
              M("start_offset", so)>> \o e, rev) :
        h \in {Absent, JInt(0), JInt(1)},
        at \in {Absent, Attr1},
        w \in {Absent, JInt(8), JInt(-1)},
        sz \in {Absent, JInt(16)},
        so \in {Absent, JInt(4)},
        e \in ExtraOpts,
        rev \in BOOLEAN }

Port1 == JObj(<<M("direction", JStr("output")), M("bits", JArr(<<JInt(2), JStr("z")>>)),
                M("signed", JInt(1))>>)
Port2 == JObj(<<M("vendor", JStr("v")), M("bits", JArr(<<JInt(3)>>)),
                M("direction", JStr("input"))>>)
Cell1 == JObj(<<M("hide_name", JInt(1)), M("type", JStr("$and")),
                M("port_directions", PortDirs1), M("connections", Conns1)>>)
Cell2 == JObj(<<M("type", JStr("$not")), M("parameters", Params1)>>)
Memory1 == JObj(<<M("hide_name", JInt(1)), M("width", JInt(8)), M("size", JInt(16))>>)
Net1 == JObj(<<M("hide_name", JInt(1)), M("bits", JArr(<<JInt(2), JStr("z")>>)),
               M("signed", JInt(1))>>)
Net2 == JObj(<<M("bits", JArr(<<JInt(3)>>)), M("attributes", Attr1)>>)

ModuleObjs ==
    { MkObj(<<M("attributes", at), M("ports", po), M("cells", ce), M("memories", me),
              M("netnames", ne)>> \o e, rev) :
        at \in {Absent, Attr1},
        po \in {Absent, JObj(<<>>), JObj(<<M("b", Port1), M("a", Port2)>>),
                JObj(<<M("a", JObj(<<M("bits", JArr(<<JStr("Q")>>))>>))>>)},
        ce \in {Absent, JObj(<<M("c2", Cell1), M("c1", Cell2)>>),
                JObj(<<M("c", JObj(<<M("hide_name", JInt(1))>>))>>)},
        me \in {Absent, JObj(<<M("ram", Memory1)>>),
                JObj(<<M("ram", JObj(<<M("width", JInt(8))>>))>>)},
        ne \in {Absent, JObj(<<M("n2", Net1), M("n1", Net2)>>),
                JObj(<<M("n", JObj(<<M("hide_name", JInt(0))>>))>>)},
        e \in {<<>>, <<M("nets", JObj(<<>>))>>,
               <<M("zeta", JStr("v")), M("alpha", JInt(2))>>},
        rev \in BOOLEAN }

Module1 == JObj(<<M("ports", JObj(<<M("b", Port1), M("a", Port2)>>)),
                  M("netnames", JObj(<<M("n2", Net1), M("n1", Net2)>>))>>)

Doc(modules) == JObj(<<M("creator", JStr("t")), M("modules", modules)>>)

NetlistObjs ==
    { MkObj(<<M("creator", c), M("modules", mo)>> \o e, rev) :
        c \in {Absent, JStr("t"), JInt(7)},
        mo \in {Absent, JObj(<<>>), JInt(0), JObj(<<M("top", Module1), M("adder", JObj(<<>>))>>),
                JObj(<<M("m", JObj(<<M("cells", JObj(<<M("c", JObj(<<>>))>>))>>))>>)},
        e \in ExtraOpts,
        rev \in BOOLEAN }
    \cup {Doc(JObj(<<M("m", mod)>>)) : mod \in ModuleObjs}
    \cup {Doc(JObj(<<M("m", JObj(<<M("ports", JObj(<<M("p", port)>>))>>))>>)) : port \in PortObjs}

\* The types a caller decodes and the JSON values handed to each.
Inputs(t) ==
    CASE t = "Bit" -> WireScalars \cup {JArr(<<JInt(0)>>), JObj(<<>>)}
      [] t = "bool_u64" -> WireScalars
      [] t = "Direction" -> {JStr("input"), JStr("output"), JStr("inout"), JStr("Input"), JInt(0)}
      [] t = "Vec<Bit>" -> {JArr(elems) : elems \in SeqsUpTo(BitElems, MaxBits)}
      [] t = "Port" -> PortObjs
      [] t = "Net" -> NetObjs
      [] t = "Cell" -> CellObjs
      [] t = "Memory" -> MemoryObjs
      [] t = "Module" -> ModuleObjs
      [] t = "Netlist" -> NetlistObjs

Types == {"Bit", "bool_u64", "Direction", "Vec<Bit>"} \cup StructTypes

\* Netlist::new
new(creator) == [creator |-> creator, modules |-> <<>>, extra |-> <<>>]

\* The values a caller builds without decoding.
Built(t) ==
    CASE t = "Bit" -> Bit
      [] t = "bool_u64" -> BOOLEAN
      [] t = "Direction" -> Direction
      [] t = "Netlist" -> {new("t"), new("")}

----------------------------------------------------------------------------
(* The state machine: a caller decodes a JSON value as type ty (from_value  *)
(* and its siblings from_str, from_slice, from_reader), or builds a value,  *)
(* encodes it (to_string, to_writer), and may decode what was written.      *)

NoValue == Err(NoError)

Init ==
    /\ ty \in Types
    /\ output = NoJson
    /\ \/ /\ input \in Inputs(ty)
          /\ value = NoValue
          /\ pc = "start"
       \/ /\ ty \in {"Bit", "bool_u64", "Direction", "Netlist"}
          /\ input = NoJson
          /\ value \in {Ok(x) : x \in Built(ty)}
          /\ pc = "built"

from_value ==
    /\ pc = "start"
    /\ value' = Deserialize(ty, input)
    /\ pc' = IF value'.ok THEN "decoded" ELSE "failed"
    /\ UNCHANGED <<ty, input, output>>

to_string ==
    /\ pc \in {"decoded", "built"}
    /\ output' = Serialize(ty, value.val)
    /\ pc' = "encoded"
    /\ UNCHANGED <<ty, input, value>>

\* The document written is read back.
reload ==
    /\ pc = "encoded"
    /\ input' = output
    /\ value' = NoValue
    /\ output' = NoJson
    /\ pc' = "start"
    /\ UNCHANGED ty

Next == from_value \/ to_string \/ reload

Spec == Init /\ [][Next]_vars

----------------------------------------------------------------------------
(* What the claims speak of *)

Decoded == pc \in {"decoded", "failed"}
FromJson == input # NoJson

IsScalar(v) == v.k \in {"null", "bool", "int", "float", "str"}

\* A valid Bit wire value: a non-negative integer or one of "0", "1", "z", "x".
ValidBitWire(v) ==
    \/ v.k = "int" /\ v.n >= 0
    \/ v.k = "str" /\ v.s \in {"0", "1", "z", "x"}

\* The error classes of the specification.
InvalidBitValue(e) == e.kind \in {"invalid_value", "invalid_type"} /\ e.exp = BitVisitor_expecting
InvalidFlagValue(e) == e.kind \in {"invalid_value", "invalid_type"} /\ e.exp = Boolu64Visitor_expecting
MissingRequiredField(e) == e.kind = "missing_field"

\* The members of an object an entity does not recognize, and the others.
Unknown(sty, members) ==
    LET Other(m) == m.key \notin FieldKeys(sty) IN SelectSeq(members, Other)
Known(sty, members) ==
    LET Mine(m) == m.key \in FieldKeys(sty) IN SelectSeq(members, Mine)
AfterFields(sty, members) == SubSeq(members, Len(Fields(sty)) + 1, Len(members))

\* The wire values found at the flag fields of a JSON value of type t.
RECURSIVE FlagWires(_, _)
FlagWires(t, j) ==
    CASE t = "bool_u64" -> {j}
      [] t \in MapTypes /\ j.k = "obj" ->
            UNION {FlagWires(ValueType(t), m.val) : m \in Range(j.o)}
      [] t \in StructTypes /\ j.k = "obj" ->
            UNION {FlagWires(FieldOfKey(t, m.key).ty, m.val) : m \in Range(Known(t, j.o))}
      [] OTHER -> {}

\* The flags of a value of type t.
RECURSIVE FlagValues(_, _)
FlagValues(t, x) ==
    CASE t = "bool_u64" -> {x}
      [] t \in MapTypes -> UNION {FlagValues(ValueType(t), e.val) : e \in Range(x)}
      [] t \in StructTypes -> UNION {FlagValues(f.ty, x[f.name]) : f \in Range(Fields(t))}
      [] OTHER -> {}

----------------------------------------------------------------------------
(* C1: for every Bit b (Signal(n) and the four constants), decoding the    *)
(* wire value written for b succeeds and yields b.                         *)
Thm_C1_BitEncodeDecode ==
    (ty = "Bit" /\ pc = "encoded") => Deserialize("Bit", output) = Ok(value.val)

Wit_C1_BitEncodeDecode ==
    ty = "Bit" /\ pc = "encoded" /\ ~FromJson /\ value.val = X /\ output = JStr("x")

(* C2: for every valid Bit wire value v (a non-negative integer, "0", "1", *)
(* "z", "x"), decoding v succeeds and encoding the result writes v again,  *)
(* of the same JSON kind.                                                  *)
Thm_C2_BitDecodeEncode ==
    (ty = "Bit" /\ FromJson /\ ValidBitWire(input)) =>
        /\ pc # "failed"
        /\ pc = "encoded" => output = input

Wit_C2_BitDecodeEncode ==
    ty = "Bit" /\ pc = "encoded" /\ input = JStr("z") /\ value.val = Z

(* C3: Bit decode fails with InvalidBitValue and yields no Bit for every   *)
(* JSON scalar that is neither a non-negative integer nor one of "0", "1", *)
(* "z", "x" (so for "Z", "X", "Q", "", negative integers, booleans, null); *)
(* for a rejected string the error names that string.                      *)
Thm_C3_BitDecodeRejects ==
    (ty = "Bit" /\ Decoded /\ IsScalar(input) /\ ~ValidBitWire(input)) =>
        /\ pc = "failed"
        /\ ~value.ok
        /\ InvalidBitValue(value.err)
        /\ input.k = "str" => value.err.kind = "invalid_value" /\ value.err.unexp = input

Wit_C3_BitDecodeRejects ==
    ty = "Bit" /\ pc = "failed" /\ input = JStr("Z") /\ value.err.unexp = JStr("Z")

(* C4, as stated: flag decode succeeds for every JSON integer, negative    *)
(* ones included, true iff the integer is 1, and fails with                *)
(* InvalidFlagValue only for a value that is not an integer.               *)
Orig_C4_FlagDecodeAnyInteger ==
    (ty = "bool_u64" /\ Decoded) =>
        IF input.k = "int"
        THEN value.ok /\ value.val = (input.n = 1)
        ELSE ~value.ok /\ InvalidFlagValue(value.err)

(* C4, amended: flag decode succeeds for every non-negative JSON integer,  *)
(* true iff the integer is 1; it fails with InvalidFlagValue for a         *)
(* negative integer and for every value that is not an integer.            *)
Thm_C4_FlagDecodeUnsigned ==
    (ty = "bool_u64" /\ Decoded) =>
        IF input.k = "int" /\ input.n >= 0
        THEN value.ok /\ value.val = (input.n = 1)
        ELSE ~value.ok /\ InvalidFlagValue(value.err)

Wit_C4_FlagDecodeUnsigned ==
    ty = "bool_u64" /\ pc = "decoded" /\ input = JInt(2) /\ value.val = FALSE

(* C5: flag encode writes 0 for true and for false; so in every entity     *)
(* with a flag field (Port.signed, Cell.hide_name, Memory.hide_name,       *)
(* Net.hide_name, Net.signed) a flag decoded from 1 is written as 0, and   *)
(* decoding what was written yields false.                                 *)
Thm_C5_FlagEncodeZero ==
    (pc = "encoded" /\ ty \in StructTypes \cup {"bool_u64"}) =>
        /\ FlagWires(ty, output) \subseteq {JInt(0)}
        /\ LET r == Deserialize(ty, output)
           IN  r.ok /\ FlagValues(ty, r.val) \subseteq {FALSE}

Wit_C5_FlagEncodeZero ==
    /\ ty = "Netlist" /\ pc = "encoded" /\ FromJson
    /\ JInt(1) \in FlagWires(ty, input)
    /\ TRUE \in FlagValues(ty, value.val)

----------------------------------------------------------------------------
(* Walks over an input and what was decoded or written from it *)

\* The input with every unrecognized member removed, at every entity level.
RECURSIVE Strip(_, _)
Strip(t, j) ==
    CASE t \in StructTypes /\ j.k = "obj" ->
            LET kept == Known(t, j.o)
            IN  JObj([i \in DOMAIN kept |->
                        M(kept[i].key, Strip(FieldOfKey(t, kept[i].key).ty, kept[i].val))])
      [] t \in MapTypes /\ j.k = "obj" ->
            JObj([i \in DOMAIN j.o |-> M(j.o[i].key, Strip(ValueType(t), j.o[i].val))])
      [] OTHER -> j

\* Every entity of value x holds in `extra` the unrecognized members of its
\* object in jin, in their order.
RECURSIVE StoredDeep(_, _, _)
StoredDeep(t, jin, x) ==
    CASE t \in StructTypes ->
            /\ x.extra = Unknown(t, jin.o)
            /\ \A m \in Range(Known(t, jin.o)) :
                  LET f == FieldOfKey(t, m.key) IN StoredDeep(f.ty, m.val, x[f.name])
      [] t \in MapTypes ->
            /\ Len(x) = Len(jin.o)
            /\ \A i \in DOMAIN jin.o : StoredDeep(ValueType(t), jin.o[i].val, x[i].val)
      [] OTHER -> TRUE

\* Every entity object of jout is its recognized keys followed by the
\* unrecognized members of its object in jin, unchanged and in their order.
RECURSIVE PassthroughDeep(_, _, _)
PassthroughDeep(t, jin, jout) ==
    CASE t \in StructTypes ->
            /\ Len(jout.o) = Len(Fields(t)) + Len(Unknown(t, jin.o))
            /\ \A i \in 1..Len(Fields(t)) : jout.o[i].key \in FieldKeys(t)
            /\ AfterFields(t, jout.o) = Unknown(t, jin.o)
            /\ \A m \in Range(Known(t, jin.o)) :
                  /\ HasKey(jout.o, m.key)
                  /\ PassthroughDeep(FieldOfKey(t, m.key).ty, m.val, Get(jout.o, m.key))
      [] t \in MapTypes ->
            \A m \in Range(jin.o) :
                /\ HasKey(jout.o, m.key)
                /\ PassthroughDeep(ValueType(t), m.val, Get(jout.o, m.key))
      [] OTHER -> TRUE

\* Every mapping of jout has the keys of the mapping of jin, in the same
\* order (none when jin has no such mapping), and every bit sequence the same
\* elements at the same places.
RECURSIVE StableDeep(_, _, _)
StableDeep(t, jin, jout) ==
    CASE t \in StructTypes ->
            /\ Keys(AfterFields(t, jout.o)) = Keys(Unknown(t, jin.o))
            /\ \A f \in Range(Fields(t)) :
                  /\ HasKey(jout.o, f.key)
                  /\ IF HasKey(jin.o, f.key)
                     THEN StableDeep(f.ty, Get(jin.o, f.key), Get(jout.o, f.key))
                     ELSE f.ty \in MapTypes => Get(jout.o, f.key).o = <<>>
      [] t \in MapTypes ->
            /\ Keys(jout.o) = Keys(jin.o)
            /\ \A i \in DOMAIN jin.o : StableDeep(ValueType(t), jin.o[i].val, jout.o[i].val)
      [] t = "Vec<Bit>" ->
            /\ Len(jout.a) = Len(jin.a)
            /\ \A i \in DOMAIN jin.a : jout.a[i] = jin.a[i]
      [] OTHER -> TRUE

\* The schema-required keys, as the specification lists them.
RequiredKeys(sty) ==
    CASE sty = "Netlist" -> {"creator", "modules"}
      [] sty = "Port" -> {"direction", "bits"}
      [] sty = "Cell" -> {"type"}
      [] sty = "Memory" -> {"width", "size"}
      [] sty = "Net" -> {"bits"}
      [] sty = "Module" -> {}

\* Some entity object of j lacks one of its required keys.
RECURSIVE MissingRequired(_, _)
MissingRequired(t, j) ==
    CASE t \in StructTypes /\ j.k = "obj" ->
            \/ \E key \in RequiredKeys(t) : ~HasKey(j.o, key)
            \/ \E m \in Range(Known(t, j.o)) : MissingRequired(FieldOfKey(t, m.key).ty, m.val)
      [] t \in MapTypes /\ j.k = "obj" ->
            \E m \in Range(j.o) : MissingRequired(ValueType(t), m.val)
      [] OTHER -> FALSE

\* Every value present in j is valid for its field.
RECURSIVE WellTyped(_, _)
WellTyped(t, j) ==
    CASE t \in StructTypes ->
            /\ j.k = "obj"
            /\ \A m \in Range(Known(t, j.o)) : WellTyped(FieldOfKey(t, m.key).ty, m.val)
      [] t \in MapTypes ->
            /\ j.k = "obj"
            /\ \A m \in Range(j.o) : WellTyped(ValueType(t), m.val)
      [] OTHER -> Deserialize(t, j).ok

\* No object of j has the same key twice.
RECURSIVE NoDuplicateKey(_)
NoDuplicateKey(j) ==
    /\ UniqueKeys(j.o)
    /\ \A m \in Range(j.o) : NoDuplicateKey(m.val)
    /\ \A e \in Range(j.a) : NoDuplicateKey(e)

----------------------------------------------------------------------------
(* C6: at every entity level a member with an unrecognized key does not    *)
(* make decode fail, is stored unchanged in the entity's passthrough       *)
(* mapping, and is written again with the same key and value after all     *)
(* the recognized keys, unrecognized members keeping their relative order. *)
Thm_C6_Passthrough ==
    (ty \in StructTypes /\ FromJson /\ pc # "start") =>
        /\ value.ok = Deserialize(ty, Strip(ty, input)).ok
        /\ value.ok => StoredDeep(ty, input, value.val)
        /\ pc = "encoded" => PassthroughDeep(ty, input, output)

Wit_C6_Passthrough ==
    /\ ty = "Cell" /\ pc = "encoded" /\ FromJson
    /\ Keys(Unknown(ty, input.o)) = <<"alpha", "zeta">>
    /\ input.o[1].key = "alpha"
    /\ Keys(AfterFields(ty, output.o)) = <<"alpha", "zeta">>

(* C7: decode then encode keeps the key sequence of every mapping          *)
(* (modules, ports, cells, memories, netnames, attributes, parameters,     *)
(* port_directions, connections and each passthrough mapping): no key is   *)
(* re-sorted, added or dropped; every bits and connection sequence keeps   *)
(* its elements' order and its length.                                     *)
Thm_C7_OrderStable ==
    (ty \in StructTypes \cup {"Vec<Bit>"} /\ FromJson /\ pc = "encoded") =>
        StableDeep(ty, input, output)

Wit_C7_OrderStable ==
    /\ ty = "Module" /\ pc = "encoded" /\ FromJson
    /\ HasKey(input.o, "ports") /\ HasKey(input.o, "cells") /\ HasKey(input.o, "netnames")
    /\ Keys(Get(output.o, "ports").o) = <<"b", "a">>
    /\ Keys(Get(output.o, "cells").o) = <<"c2", "c1">>
    /\ Keys(Get(output.o, "netnames").o) = <<"n2", "n1">>
    /\ Keys(Unknown(ty, input.o)) = <<"zeta", "alpha">>

\* The optional fields C8 names: wire key, Rust name, default.
OptionalFields(sty) ==
    CASE sty = "Module" ->
            << <<"ports", "ports", <<>> >>, <<"netnames", "nets", <<>> >>,
               <<"cells", "cells", <<>> >>, <<"memories", "memories", <<>> >>,
               <<"attributes", "attributes", <<>> >> >>
      [] sty = "Port" ->
            << <<"offset", "offset", 0>>, <<"upto", "upto", 0>>, <<"signed", "signed", FALSE>> >>
      [] OTHER -> <<>>

ExampleDoc ==
    Doc(JObj(<<M("m", JObj(<<M("ports", JObj(<<M("p",
        JObj(<<M("direction", JStr("input")),
               M("bits", JArr(<<JInt(0), JStr("1"), JStr("x")>>))>>))>>))>>))>>))

ExampleNetlist ==
    [creator |-> "t",
     modules |-> <<M("m",
        [attributes |-> <<>>,
         ports |-> <<M("p", [direction |-> "Input", bits |-> <<Signal(0), Bit_1, X>>,
                            offset |-> 0, upto |-> 0, signed |-> FALSE, extra |-> <<>>])>>,
         cells |-> <<>>, memories |-> <<>>, nets |-> <<>>, extra |-> <<>>])>>,
     extra |-> <<>>]

(* C8: the absence of an optional field never makes decode fail and yields *)
(* the default: a module object without "ports", "netnames", "cells",      *)
(* "memories" or "attributes" decodes with each an empty mapping; a port   *)
(* with only "direction" and "bits" has offset 0, upto 0, signed false;    *)
(* the example document decodes to one module "m" with one port "p" of     *)
(* direction Input and bits [Signal(0), _1, X], every passthrough empty.   *)
Thm_C8_Defaults ==
    (FromJson /\ pc # "start") =>
        /\ (~value.ok /\ MissingRequiredField(value.err)) =>
              value.err.unexp.s \notin
                  {"ports", "netnames", "cells", "memories", "attributes",
                   "offset", "upto", "signed"}
        /\ (ty \in {"Module", "Port"} /\ value.ok) =>
              \A i \in DOMAIN OptionalFields(ty) :
                  LET f == OptionalFields(ty)[i]
                  IN  ~HasKey(input.o, f[1]) => value.val[f[2]] = f[3]
        /\ (ty = "Module" /\ input = JObj(<<>>)) => value.ok
        /\ (ty = "Port" /\ Keys(input.o) = <<"direction", "bits">>
                /\ WellTyped(ty, input)) => value.ok
        /\ (ty = "Netlist" /\ input = ExampleDoc) => value = Ok(ExampleNetlist)

Wit_C8_Defaults ==
    ty = "Netlist" /\ pc = "decoded" /\ input = ExampleDoc /\ value.val = ExampleNetlist

(* C9, as stated: decode of a whole document fails with                    *)
(* MissingRequiredField whenever a required field (creator, modules, a     *)
(* port's direction or bits, a cell's type, a memory's width or size, a    *)
(* net's bits) is absent anywhere in the document.                         *)
Orig_C9_MissingFieldError ==
    (ty = "Netlist" /\ FromJson /\ pc # "start" /\ MissingRequired(ty, input)) =>
        pc = "failed" /\ ~value.ok /\ MissingRequiredField(value.err)

(* C9, amended: decode of a whole document fails, with an error and no     *)
(* Netlist, whenever a required field is absent anywhere in the document;  *)
(* the error is MissingRequiredField when every value present in the       *)
(* document is valid for its field (an invalid value met before the end    *)
(* of the object that lacks the field is reported instead).                *)
Thm_C9_MissingFieldFails ==
    (ty = "Netlist" /\ FromJson /\ pc # "start" /\ MissingRequired(ty, input)) =>
        /\ pc = "failed"
        /\ ~value.ok
        /\ WellTyped(ty, input) => MissingRequiredField(value.err)

Wit_C9_MissingFieldFails ==
    /\ ty = "Netlist" /\ pc = "failed"
    /\ HasKey(input.o, "creator") /\ HasKey(input.o, "modules")
    /\ WellTyped(ty, input)
    /\ value.err = missing_field("size")

(* C10: decode then encode is idempotent: what it writes for a document    *)
(* decodes again, and encoding that writes the same keys, key order and    *)
(* values at every level; no object written has the same key twice.        *)
Thm_C10_Idempotent ==
    (ty = "Netlist" /\ FromJson /\ pc = "encoded") =>
        LET r == Deserialize(ty, output)
        IN  /\ r.ok
            /\ Serialize(ty, r.val) = output
            /\ NoDuplicateKey(output)

Wit_C10_Idempotent ==
    /\ ty = "Netlist" /\ pc = "encoded" /\ FromJson
    /\ output # input
    /\ Unknown(ty, input.o) # <<>>
    /\ JInt(1) \in FlagWires(ty, input)
    /\ JStr("z") \in {b : b \in UNION {Range(Get(pt.val.o, "bits").a) :
                         pt \in Range(Get(Get(Get(output.o, "modules").o, "top").o, "ports").o)}}

====
